---- MODULE Spec2Model ----
(***************************************************************************)
(* Members Game: team generation and payout allocation (utils/game.ts),    *)
(* course handicap (utils/handicap.ts), roster editor and team board       *)
(* (components/CourseManager.tsx).                                         *)
(*                                                                         *)
(* Conventions of the model                                                *)
(*  - an optional field (randomSeed?, paidPlaces?, linkGroupId?) is the    *)
(*    empty sequence when unset and a one-element sequence when set;       *)
(*  - a handicap index is held in tenths (the UI stores one decimal);      *)
(*  - identifiers are naturals; their numeric order stands for the order   *)
(*    String.localeCompare gives the generated id strings;                 *)
(*  - a 32-bit word is a pair <<high 16 bits, low 16 bits>>;               *)
(*  - a payout ratio is a pair <<numerator, denominator>>;                 *)
(*  - Math.random is an unconstrained choice of each drawn index;           *)
(*  - fees are whole currency units, so Math.round(fee * players) is the   *)
(*    product; amounts ratio * prizePool are exact rationals, which give   *)
(*    the same rounded amounts as the doubles of the source for every      *)
(*    prize pool below 700 and up to 9 paid places;                        *)
(*  - crypto.randomUUID and makeId return ids that are not in use: the     *)
(*    next natural of a counter;                                           *)
(*  - a handler of CourseManager is one action, taken in any state in      *)
(*    which its own guards let it act; a handler that returns early or     *)
(*    throws before it stores anything leaves the state as it is.          *)
(***************************************************************************)
EXTENDS Integers, Sequences, FiniteSets, TLC

VARIABLES
  course,    \* the course passed to generateGame
  players,   \* the roster passed to generateGame
  settings,  \* the GameSettings of the call
  outcome,   \* what the last call returned (a GameResult) or threw
  locals,    \* the locals of the last call at its exit
  t,         \* state of the generator closure the last seeded call created
  history,   \* the calls made so far: settings and outcome of each
  planTotal, \* argument of a call of determineTeamSizes
  planSizes, \* its return value
  hcpArgs,   \* arguments of a call of courseHandicapFor
  hcpResult, \* its return value
  selectedPlayerIds, \* CourseManager: the ids ticked for linking
  nextPlayerId,      \* the id the add-player form holds (a fresh id)
  nextGroupId,       \* the id the next makeId('grp') returns (a fresh id)
  game,              \* CourseManager: the GameResult on display, or null
  draggedPlayer      \* CourseManager: the drag in progress, or null

callVars == <<course, players, settings, outcome, locals, t, history>>

planVars == <<planTotal, planSizes>>

hcpVars == <<hcpArgs, hcpResult>>

uiVars == <<selectedPlayerIds, nextPlayerId, nextGroupId, game, draggedPlayer>>

vars == <<callVars, planVars, hcpVars, uiVars>>

(***************************************************************************)
(* Bounds                                                                  *)
(***************************************************************************)
MaxPlayers == 5
MaxLinks == 2
MaxTotal == 120
MaxPayPlayers == 25
MaxFee == 12
MaxPlaces == 7
MaxCalls == 3
MaxDetPlayers == 5
MaxSeed == 2
MaxGroupPlayers == 10
MaxHcp == 60
MaxSlope == 122
MaxRoster == 5
MaxGroupIds == 2
MaxMovePlayers == 5
MaxSingles == 12
MaxUnseeded == 6
MaxUISeed == 2

(***************************************************************************)
(* Generic helpers                                                         *)
(***************************************************************************)
Max(a, b) == IF a >= b THEN a ELSE b

Min(a, b) == IF a <= b THEN a ELSE b

Abs(a) == IF a < 0 THEN 0 - a ELSE a

Sign(a) == IF a > 0 THEN 1 ELSE IF a < 0 THEN 0 - 1 ELSE 0

RECURSIVE SumSeq(_)
SumSeq(s) == IF s = <<>> THEN 0 ELSE Head(s) + SumSeq(Tail(s))

RECURSIVE Repeat(_, _)
Repeat(v, n) == IF n <= 0 THEN <<>> ELSE <<v>> \o Repeat(v, n - 1)

Swap(arr, i, j) == [arr EXCEPT ![i] = arr[j], ![j] = arr[i]]

\* Math.round on the rational num/den (den > 0): nearest integer, halves up.
RoundDiv(num, den) == (2 * num + den) \div (2 * den)

(***************************************************************************)
(* 32-bit words, as the bit operations of rng see them                     *)
(***************************************************************************)
W16 == 65536

RECURSIVE XorN(_, _, _)
XorN(a, b, n) ==
  IF n = 0 THEN 0
  ELSE ((a + b) % 2) + 2 * XorN(a \div 2, b \div 2, n - 1)

RECURSIVE OrN(_, _, _)
OrN(a, b, n) ==
  IF n = 0 THEN 0
  ELSE (IF a % 2 = 1 \/ b % 2 = 1 THEN 1 ELSE 0) + 2 * OrN(a \div 2, b \div 2, n - 1)

Xor32(a, b) == <<XorN(a[1], b[1], 16), XorN(a[2], b[2], 16)>>

Or32(a, b) == <<OrN(a[1], b[1], 16), OrN(a[2], b[2], 16)>>

Add32(a, b) ==
  LET lo == a[2] + b[2]
  IN  <<(a[1] + b[1] + lo \div W16) % W16, lo % W16>>

RECURSIVE Pow2(_)
Pow2(k) == IF k = 0 THEN 1 ELSE 2 * Pow2(k - 1)

\* w >>> k for 0 < k < 16
Shr32(w, k) ==
  <<w[1] \div Pow2(k), (w[2] \div Pow2(k)) + (w[1] % Pow2(k)) * Pow2(16 - k)>>

\* 16 x 16 -> 32 bit product as a word, through 8-bit limbs
Mul16(x, y) ==
  LET x1 == x \div 256
      x0 == x % 256
      y1 == y \div 256
      y0 == y % 256
      mid == x1 * y0 + x0 * y1
      low == x0 * y0 + (mid % 256) * 256
  IN  <<(x1 * y1 + mid \div 256 + low \div W16) % W16, low % W16>>

\* Math.imul: the low 32 bits of the product
Imul(a, b) ==
  LET ll == Mul16(a[2], b[2])
      hl == Mul16(a[1], b[2])
      lh == Mul16(a[2], b[1])
  IN  <<(ll[1] + hl[2] + lh[2]) % W16, ll[2]>>

\* seed >>> 0 for an integer seed in -2^31 .. 2^31 - 1
ToUint32(seed) ==
  IF seed >= 0 THEN <<seed \div W16, seed % W16>>
  ELSE <<65535 - ((0 - seed - 1) \div W16), 65535 - ((0 - seed - 1) % W16)>>

\* a generator whose state outlives the call that created it
rng_Shared(seed) == t

\* rng(seed): the closure state t of a newly created generator
rng(seed) == ToUint32(seed)

\* one call of the closure: the advanced state and the 32-bit numerator of
\* the returned fraction
rngNext(state) ==
  LET t1 == Add32(state, <<27947, 31221>>)
      r1 == Imul(Xor32(t1, Shr32(t1, 15)), Or32(<<0, 1>>, t1))
      r2 == Xor32(r1, Add32(r1, Imul(Xor32(r1, Shr32(r1, 7)), Or32(<<0, 61>>, r1))))
  IN  [state |-> t1, value |-> Xor32(r2, Shr32(r2, 14))]

\* Math.floor(u / 4294967296 * k)
FloorScale(u, k) == (u[1] * k + (u[2] * k) \div W16) \div W16

(***************************************************************************)
(* determineTeamSizes                                                      *)
(***************************************************************************)
\* the two 3s added without giving up a 4
determineTeamSizes_KeepsFours(total) ==
  IF total <= 4 THEN <<total>>
  ELSE LET n4 == total \div 4
           rem == total - n4 * 4
       IN  IF rem = 0 THEN Repeat(4, n4)
           ELSE IF rem = 1
                THEN IF n4 >= 2 THEN Repeat(4, n4 - 2) \o <<3, 3, 3>>
                     ELSE <<3, 2>>
           ELSE IF rem = 2
                THEN IF n4 >= 1 THEN Repeat(4, n4) \o <<3, 3>>
                     ELSE <<2>>
           ELSE Repeat(4, n4) \o <<3>>

\* a remainder of 2 served by one team of 2
determineTeamSizes_TwoForRemainder(total) ==
  IF total <= 4 THEN <<total>>
  ELSE LET n4 == total \div 4
           rem == total - n4 * 4
       IN  IF rem = 0 THEN Repeat(4, n4)
           ELSE IF rem = 1
                THEN IF n4 >= 2 THEN Repeat(4, n4 - 2) \o <<3, 3, 3>>
                     ELSE <<3, 2>>
           ELSE IF rem = 2 THEN Repeat(4, n4) \o <<2>>
           ELSE Repeat(4, n4) \o <<3>>

\* the 3s pushed before the 4s
determineTeamSizes_ThreesFirst(total) ==
  IF total <= 4 THEN <<total>>
  ELSE LET n4 == total \div 4
           rem == total - n4 * 4
       IN  IF rem = 0 THEN Repeat(4, n4)
           ELSE IF rem = 1
                THEN IF n4 >= 2 THEN <<3, 3, 3>> \o Repeat(4, n4 - 2)
                     ELSE <<3, 2>>
           ELSE IF rem = 2
                THEN IF n4 >= 1 THEN <<3, 3>> \o Repeat(4, n4 - 1)
                     ELSE <<2>>
           ELSE <<3>> \o Repeat(4, n4)

\* a remainder of 2 served by three teams of 2 in place of a 4 and a 2
determineTeamSizes_ThreePairs(total) ==
  IF total <= 4 THEN <<total>>
  ELSE LET n4 == total \div 4
           rem == total - n4 * 4
       IN  IF rem = 0 THEN Repeat(4, n4)
           ELSE IF rem = 1
                THEN IF n4 >= 2 THEN Repeat(4, n4 - 2) \o <<3, 3, 3>>
                     ELSE <<3, 2>>
           ELSE IF rem = 2
                THEN IF n4 >= 1 THEN Repeat(4, n4 - 1) \o <<2, 2, 2>>
                     ELSE <<2>>
           ELSE Repeat(4, n4) \o <<3>>

determineTeamSizes(total) ==
  IF total <= 4 THEN <<total>>
  ELSE LET n4 == total \div 4
           rem == total - n4 * 4
       IN  IF rem = 0 THEN Repeat(4, n4)
           ELSE IF rem = 1
                THEN IF n4 >= 2 THEN Repeat(4, n4 - 2) \o <<3, 3, 3>>
                     ELSE <<3, 2>>
           ELSE IF rem = 2
                THEN IF n4 >= 1 THEN Repeat(4, n4 - 1) \o <<3, 3>>
                     ELSE <<2>>
           ELSE Repeat(4, n4) \o <<3>>

(***************************************************************************)
(* Rationals <<numerator, denominator>>, denominator > 0, kept reduced     *)
(***************************************************************************)
RECURSIVE GCD(_, _)
GCD(a, b) == IF b = 0 THEN a ELSE GCD(b, a % b)

RatReduce(r) ==
  LET g == GCD(Abs(r[1]), r[2])
  IN  <<r[1] \div g, r[2] \div g>>

RatSub(a, b) ==
  LET g == GCD(a[2], b[2])
  IN  RatReduce(<<a[1] * (b[2] \div g) - b[1] * (a[2] \div g), (a[2] \div g) * b[2]>>)

RatAdd(a, b) == RatSub(a, <<0 - b[1], b[2]>>)

\* a / b for b > 0
RatDiv(a, b) == RatReduce(<<a[1] * b[2], a[2] * b[1]>>)

RatLess(a, b) == a[1] * b[2] < b[1] * a[2]

RatMax(a, b) == IF RatLess(a, b) THEN b ELSE a

RECURSIVE RatSum(_)
RatSum(s) == IF s = <<>> THEN <<0, 1>> ELSE RatAdd(Head(s), RatSum(Tail(s)))

(***************************************************************************)
(* basePayoutRatios                                                        *)
(***************************************************************************)
\* the default branch's loop from iteration i (0-based) on
RECURSIVE TaperFrom(_, _, _, _)
TaperFrom(i, n, remaining, share) ==
  IF i >= n THEN <<>>
  ELSE LET v == IF i = n - 1 THEN remaining ELSE RatMax(<<1, 20>>, share)
       IN  <<v>> \o (IF i = n - 1 THEN <<>>
                     ELSE TaperFrom(i + 1, n, RatSub(remaining, v),
                                    RatReduce(<<share[1] * 7, share[2] * 10>>)))

\* the places paid without the cap by the number of teams
EffectivePlaces_Uncapped(places, numTeams) == Max(1, places)

\* line 107: places capped to the number of teams, at least 1
EffectivePlaces(places, numTeams) == Max(1, Min(places, numTeams))

basePayoutRatios(places, numTeams) ==
  LET n == EffectivePlaces(places, numTeams)
  IN  CASE n = 1 -> <<(<<1, 1>>)>>
        [] n = 2 -> <<(<<3, 5>>), <<2, 5>>>>
        [] n = 3 -> <<(<<1, 2>>), <<3, 10>>, <<1, 5>>>>
        [] n = 4 -> <<(<<2, 5>>), <<3, 10>>, <<1, 5>>, <<1, 10>>>>
        [] n = 5 -> <<(<<7, 20>>), <<1, 4>>, <<9, 50>>, <<3, 25>>, <<1, 10>>>>
        [] OTHER -> LET ratios == TaperFrom(0, n, <<1, 1>>, <<7, 20>>)
                        sum == RatSum(ratios)
                    IN  [i \in 1..Len(ratios) |-> RatDiv(ratios[i], sum)]

(***************************************************************************)
(* roundPayoutsPrefer10Then5                                               *)
(***************************************************************************)
\* the enforcement loop: rounded[i] is clamped to the (already clamped)
\* rounded[i-1], for i from 2 (1-based) on
RECURSIVE ClampFrom(_, _)
ClampFrom(rounded, i) ==
  IF i > Len(rounded) THEN rounded
  ELSE ClampFrom(IF rounded[i] > rounded[i - 1]
                 THEN [rounded EXCEPT ![i] = rounded[i - 1]]
                 ELSE rounded, i + 1)

\* the amounts left as adjusted
EnforceNonIncreasing_Skipped(rounded) == rounded

EnforceNonIncreasing(rounded) == ClampFrom(rounded, 2)

\* the inner for loop of tryRound, from index i (1-based) on
RECURSIVE AdjustPass(_, _, _, _, _, _)
AdjustPass(rounded, i, diff, dir, step, adjusted) ==
  IF i > Len(rounded) \/ diff < step
  THEN [rounded |-> rounded, diff |-> diff, adjusted |-> adjusted]
  ELSE LET next == rounded[i] + dir * step
       IN  IF dir > 0 \/ (dir < 0 /\ next >= 0)
           THEN AdjustPass([rounded EXCEPT ![i] = next], i + 1, diff - step, dir, step, TRUE)
           ELSE AdjustPass(rounded, i + 1, diff, dir, step, adjusted)

\* the while loop of tryRound
RECURSIVE AdjustLoop(_, _, _, _)
AdjustLoop(rounded, diff, dir, step) ==
  IF diff < step THEN rounded
  ELSE LET p == AdjustPass(rounded, 1, diff, dir, step, FALSE)
       IN  IF ~p.adjusted THEN p.rounded
           ELSE AdjustLoop(p.rounded, p.diff, dir, step)

\* the values rounded to whole units, not to multiples of step
tryRound_ToUnits(values, total, step) ==
  LET rounded0 == [i \in 1..Len(values) |-> Max(0, RoundDiv(values[i][1], values[i][2]))]
      diff0 == total - SumSeq(rounded0)
      rounded == EnforceNonIncreasing(AdjustLoop(rounded0, Abs(diff0), Sign(diff0), step))
  IN  [rounded |-> rounded, sum |-> SumSeq(rounded)]

\* the rounded values taken without the floor at 0
tryRound_NoFloor(values, total, step) ==
  LET rounded0 == [i \in 1..Len(values) |-> RoundDiv(values[i][1], values[i][2] * step) * step]
      diff0 == total - SumSeq(rounded0)
      rounded == EnforceNonIncreasing(AdjustLoop(rounded0, Abs(diff0), Sign(diff0), step))
  IN  [rounded |-> rounded, sum |-> SumSeq(rounded)]

tryRound(values, total, step) ==
  LET rounded0 == [i \in 1..Len(values) |->
                     Max(0, RoundDiv(values[i][1], values[i][2] * step) * step)]
      diff0 == total - SumSeq(rounded0)
      rounded == EnforceNonIncreasing(AdjustLoop(rounded0, Abs(diff0), Sign(diff0), step))
  IN  [rounded |-> rounded, sum |-> SumSeq(rounded)]

\* the amounts rounded to 5 returned whether or not they sum to the total
roundPayoutsPrefer10Then5_NoResidual(values, total) ==
  LET v10 == tryRound(values, total, 10)
      v5 == tryRound(values, total, 5)
  IN  IF v10.sum = total THEN v10.rounded ELSE v5.rounded

roundPayoutsPrefer10Then5(values, total) ==
  LET v10 == tryRound(values, total, 10)
      v5 == tryRound(values, total, 5)
  IN  IF v10.sum = total THEN v10.rounded
      ELSE IF v5.sum # total
           THEN LET diff == total - v5.sum
                    rounded == IF Len(v5.rounded) > 0
                               THEN [v5.rounded EXCEPT ![1] = @ + diff]
                               ELSE v5.rounded
                IN  EnforceNonIncreasing(rounded)
           ELSE v5.rounded

\* lines 319-325 of generateGame: the pools and the payout list
Payouts(s, totalPlayers, numTeams) ==
  LET prizePool == Max(0, s.entryFeePerPlayer * totalPlayers)
      places == Max(1, IF s.paidPlaces = <<>> THEN 3 ELSE s.paidPlaces[1])
      ratios == basePayoutRatios(places, numTeams)
      rawAmounts == [i \in 1..Len(ratios) |-> <<ratios[i][1] * prizePool, ratios[i][2]>>]
      finalAmounts == roundPayoutsPrefer10Then5(rawAmounts, prizePool)
  IN  [prizePool |-> prizePool,
       skinsPool |-> Max(0, (IF s.skinsPoolPerPlayer = <<>> THEN 0
                             ELSE s.skinsPoolPerPlayer[1]) * totalPlayers),
       payouts |-> [i \in 1..Len(finalAmounts) |-> [place |-> i, amount |-> finalAmounts[i]]]]

(***************************************************************************)
(* courseHandicapFor, computePlayerCH                                      *)
(***************************************************************************)
\* Math.round replaced by rounding that takes halves away from zero
courseHandicapFor_HalfAwayFromZero(crs, hi, tee) ==
  LET slope == IF crs.slopes[tee] = <<>> THEN 0 ELSE crs.slopes[tee][1]
  IN  Sign(hi * slope) * RoundDiv(Abs(hi * slope), 1130)

\* hi is in tenths: Math.round((hi / 10) * slope / 113)
courseHandicapFor(crs, hi, tee) ==
  LET slope == IF crs.slopes[tee] = <<>> THEN 0 ELSE crs.slopes[tee][1]
  IN  RoundDiv(hi * slope, 1130)

computePlayerCH(crs, p) ==
  [id |-> p.id, handicapIndex |-> p.handicapIndex, tee |-> p.tee,
   linkGroupId |-> p.linkGroupId,
   courseHandicap |-> courseHandicapFor(crs, p.handicapIndex, p.tee)]

RECURSIVE SumCH(_)
SumCH(ms) == IF ms = <<>> THEN 0 ELSE Head(ms).courseHandicap + SumCH(Tail(ms))

(***************************************************************************)
(* Group formation (generateGame, lines 181-216)                           *)
(***************************************************************************)
\* a group id is <<kind, key, chunk>>: kind 0 is a linkGroupId, kind 1 is
\* 'single:' + player id; chunk is 0, or idx + 1 for the suffix '#' + (idx + 1)
GroupKey(p) ==
  IF p.linkGroupId # <<>> THEN <<0, p.linkGroupId[1], 0>> ELSE <<1, p.id, 0>>

\* a.localeCompare(b) on group ids
localeCompare(a, b) ==
  IF a[1] # b[1] THEN a[1] - b[1]
  ELSE IF a[2] # b[2] THEN a[2] - b[2]
  ELSE a[3] - b[3]

IndexOfKey(m, gid) ==
  LET hits == {i \in 1..Len(m) : m[i].id = gid}
  IN  IF hits = {} THEN 0 ELSE CHOOSE i \in hits : TRUE

\* the loop over enriched that fills groupsMap (insertion-ordered)
RECURSIVE GroupsMap(_, _)
GroupsMap(enriched, m) ==
  IF enriched = <<>> THEN m
  ELSE LET p == Head(enriched)
           gid == GroupKey(p)
           at == IndexOfKey(m, gid)
       IN  GroupsMap(Tail(enriched),
                     IF at = 0
                     THEN Append(m, [id |-> gid, members |-> <<p>>])
                     ELSE [m EXCEPT ![at].members = Append(@, p)])

MakeGroup(gid, members) ==
  [id |-> gid, members |-> members, size |-> Len(members),
   strength |-> <<SumCH(members), Max(1, Len(members))>>]

\* a slice that runs one member into the next chunk
ChunkSlice_OneTooMany(members, i) == SubSeq(members, i + 1, Min(i + 5, Len(members)))

\* members.slice(i, i + 4), i counted from 0
ChunkSlice(members, i) == SubSeq(members, i + 1, Min(i + 4, Len(members)))

\* the chunks for i = 0, 4, 8, ...; idx is the chunk index
RECURSIVE Chunked(_, _, _)
Chunked(g, i, idx) ==
  IF i >= Len(g.members) THEN <<>>
  ELSE <<MakeGroup(<<g.id[1], g.id[2], idx + 1>>, ChunkSlice(g.members, i))>>
       \o Chunked(g, i + 4, idx + 1)

RECURSIVE GroupsOf(_)
GroupsOf(m) ==
  IF m = <<>> THEN <<>>
  ELSE LET g == Head(m)
       IN  (IF Len(g.members) > 4 THEN Chunked(g, 0, 0)
            ELSE <<MakeGroup(g.id, g.members)>>) \o GroupsOf(Tail(m))

(***************************************************************************)
(* Orderings (Array.prototype.sort is stable)                              *)
(***************************************************************************)
\* the randomized comparator without its tie-break on the group id
Compare_SizeOnly(kind, a, b) ==
  CASE kind = "random" -> b.size - a.size
    [] kind = "balanced" ->
         IF a.size # b.size THEN b.size - a.size
         ELSE IF a.strength # b.strength
              THEN a.strength[1] * b.strength[2] - b.strength[1] * a.strength[2]
              ELSE localeCompare(a.id, b.id)
    [] kind = "teams" ->
         IF Len(a.players) # Len(b.players) THEN Len(a.players) - Len(b.players)
         ELSE a.teamHandicap - b.teamHandicap

\* the comparators of lines 230, 233-237 and 312-316; negative: a before b
Compare(kind, a, b) ==
  CASE kind = "random" ->
         IF b.size # a.size THEN b.size - a.size ELSE localeCompare(a.id, b.id)
    [] kind = "balanced" ->
         IF a.size # b.size THEN b.size - a.size
         ELSE IF a.strength # b.strength
              THEN a.strength[1] * b.strength[2] - b.strength[1] * a.strength[2]
              ELSE localeCompare(a.id, b.id)
    [] kind = "teams" ->
         IF Len(a.players) # Len(b.players) THEN Len(a.players) - Len(b.players)
         ELSE a.teamHandicap - b.teamHandicap

\* x goes after every element that does not compare greater than it
RECURSIVE InsertSorted(_, _, _)
InsertSorted(kind, sorted, x) ==
  IF sorted = <<>> THEN <<x>>
  ELSE IF Compare(kind, Head(sorted), x) <= 0
       THEN <<Head(sorted)>> \o InsertSorted(kind, Tail(sorted), x)
       ELSE <<x>> \o sorted

RECURSIVE SortFrom(_, _, _)
SortFrom(kind, arr, acc) ==
  IF arr = <<>> THEN acc
  ELSE SortFrom(kind, Tail(arr), InsertSorted(kind, acc, Head(arr)))

Sort(kind, arr) == SortFrom(kind, arr, <<>>)

(***************************************************************************)
(* Randomness                                                              *)
(***************************************************************************)
\* typeof settings.randomSeed === 'number' ? rng(settings.randomSeed) : Math.random
RandSource(s) ==
  IF s.randomSeed # <<>>
  THEN [seeded |-> TRUE, state |-> rng(s.randomSeed[1])]
  ELSE [seeded |-> FALSE, state |-> <<0, 0>>]

\* Math.floor(rand() * k): the possible indices, each with the source after
\* the draw
RandIndex(src, k) ==
  IF src.seeded
  THEN LET n == rngNext(src.state)
       IN  {[j |-> FloorScale(n.value, k), src |-> [src EXCEPT !.state = n.state]]}
  ELSE {[j |-> j, src |-> src] : j \in 0..(k - 1)}

\* the Fisher-Yates loop of lines 225-228 and 250-253, i counted 1-based
RECURSIVE ShuffleFrom(_, _, _)
ShuffleFrom(arr, i, src) ==
  IF i <= 1 THEN {[arr |-> arr, src |-> src]}
  ELSE UNION {ShuffleFrom(Swap(arr, i, d.j + 1), i - 1, d.src) : d \in RandIndex(src, i)}

Shuffle(arr, src) == ShuffleFrom(arr, Len(arr), src)

(***************************************************************************)
(* Assignment (generateGame, lines 240-301)                                *)
(***************************************************************************)
\* st: teams (player lists), remaining, and what the claims observe of the
\* run: remLog (remaining after each placement), placed (groups placed),
\* fallback (a fallback scan found the team), thrown / errSize
\* the members placed one by one: the first in team idx, the others in the
\* next team
Place_PerMember(st, g, idx, viaFallback) ==
  LET other == (idx % Len(st.teams)) + 1
      teams1 == [st.teams EXCEPT ![idx] = Append(@, Head(g.members))]
      rem1 == [st.remaining EXCEPT ![idx] = @ - 1]
      teams2 == [teams1 EXCEPT ![other] = @ \o Tail(g.members)]
      rem2 == [rem1 EXCEPT ![other] = @ - (g.size - 1)]
  IN  [st EXCEPT !.teams = teams2, !.remaining = rem2,
                 !.remLog = Append(@, rem2), !.placed = @ + 1,
                 !.fallback = @ \/ viaFallback]

Place(st, g, idx, viaFallback) ==
  [st EXCEPT !.teams[idx] = @ \o g.members,
             !.remaining[idx] = @ - g.size,
             !.remLog = Append(@, [st.remaining EXCEPT ![idx] = @ - g.size]),
             !.placed = @ + 1,
             !.fallback = @ \/ viaFallback]

Throw(st, g) == [st EXCEPT !.thrown = TRUE, !.errSize = g.size]

\* the lowest index with any capacity left, whatever the group's size
FirstFit_AnyRoom(remaining, size) ==
  LET fits == {k \in 1..Len(remaining) : remaining[k] > 0}
  IN  IF fits = {} THEN 0 ELSE CHOOSE k \in fits : \A j \in fits : k <= j

\* the lowest index k with remaining[k] >= size, 0 when there is none
FirstFit(remaining, size) ==
  LET fits == {k \in 1..Len(remaining) : remaining[k] >= size}
  IN  IF fits = {} THEN 0 ELSE CHOOSE k \in fits : \A j \in fits : k <= j

\* the first team of the shuffled order taken whatever its remaining capacity
FirstInOrder_Unchecked(order, remaining, size) ==
  IF order = <<>> THEN 0 ELSE Head(order) + 1

\* the first index of order (0-based team indices) whose team fits
RECURSIVE FirstInOrder(_, _, _)
FirstInOrder(order, remaining, size) ==
  IF order = <<>> THEN 0
  ELSE IF remaining[Head(order) + 1] >= size THEN Head(order) + 1
       ELSE FirstInOrder(Tail(order), remaining, size)

\* lines 254-274 for one group and one shuffled order
PlaceRandom(st, g, order) ==
  LET idx == FirstInOrder(order, st.remaining, g.size)
      k == FirstFit(st.remaining, g.size)
  IN  IF idx # 0 THEN Place(st, g, idx, FALSE)
      ELSE IF k # 0 THEN Place(st, g, k, TRUE)
      ELSE Throw(st, g)

\* lines 247-275: the set of exits [st, src]
RECURSIVE AssignRandom(_, _, _, _)
AssignRandom(groups, k, st, src) ==
  IF k > Len(groups) THEN {[st |-> st, src |-> src]}
  ELSE UNION {LET nxt == PlaceRandom(st, groups[k], o.arr)
              IN  IF nxt.thrown THEN {[st |-> nxt, src |-> o.src]}
                  ELSE AssignRandom(groups, k + 1, nxt, o.src)
              : o \in Shuffle([i \in 1..Len(st.teams) |-> i - 1], src)}

\* the scan that moves on to a later team of equal remaining capacity
BestScan_LastOfTies(remaining, size, k, bestIdx, bestRemain) ==
  LET fits == {j \in 1..Len(remaining) : remaining[j] >= size}
      best == {j \in fits : \A i \in fits : remaining[i] <= remaining[j]}
  IN  IF best = {} THEN 0 ELSE CHOOSE j \in best : \A i \in best : i <= j

\* the scan started at the second team
BestScan_FromSecond(remaining, size, k, bestIdx, bestRemain) ==
  LET fits == {j \in 2..Len(remaining) : remaining[j] >= size}
      best == {j \in fits : \A i \in fits : remaining[i] <= remaining[j]}
  IN  IF best = {} THEN 0 ELSE CHOOSE j \in best : \A i \in best : j <= i

\* lines 279-287: the scan for the largest remaining capacity that fits
RECURSIVE BestScan(_, _, _, _, _)
BestScan(remaining, size, k, bestIdx, bestRemain) ==
  IF k > Len(remaining) THEN bestIdx
  ELSE IF remaining[k] >= size /\ remaining[k] > bestRemain
       THEN BestScan(remaining, size, k + 1, k, remaining[k])
       ELSE BestScan(remaining, size, k + 1, bestIdx, bestRemain)

\* lines 278-299 for one group
PlaceBalanced(st, g) ==
  LET bestIdx == BestScan(st.remaining, g.size, 1, 0, 0 - 1)
      k == FirstFit(st.remaining, g.size)
  IN  IF bestIdx # 0 THEN Place(st, g, bestIdx, FALSE)
      ELSE IF k # 0 THEN Place(st, g, k, TRUE)
      ELSE Throw(st, g)

RECURSIVE AssignBalanced(_, _, _)
AssignBalanced(groups, k, st) ==
  IF k > Len(groups) THEN st
  ELSE LET nxt == PlaceBalanced(st, groups[k])
       IN  IF nxt.thrown THEN nxt ELSE AssignBalanced(groups, k + 1, nxt)

(***************************************************************************)
(* generateGame                                                            *)
(***************************************************************************)
Truthy(opt) == opt # <<>> /\ opt[1]

\* a seed, when given, also switches the balanced policy to the shuffled order
SortedGroups_SeedVaries(groups, s) ==
  IF Truthy(s.randomizeTeams) \/ s.randomSeed # <<>>
  THEN {Sort("random", o.arr) : o \in Shuffle(groups, RandSource(s))}
  ELSE {Sort("balanced", groups)}

\* lines 218-238: the possible orders of the groups
SortedGroups(groups, s) ==
  IF Truthy(s.randomizeTeams)
  THEN {Sort("random", o.arr) : o \in Shuffle(groups, RandSource(s))}
  ELSE {Sort("balanced", groups)}

\* lines 240-301: the possible exits of the assignment for one group order
Assign(sortedGroups, teamSizes, s) ==
  LET st0 == [teams |-> [i \in 1..Len(teamSizes) |-> <<>>],
              remaining |-> teamSizes, remLog |-> <<>>, placed |-> 0,
              fallback |-> FALSE, thrown |-> FALSE, errSize |-> 0]
  IN  IF Truthy(s.randomizeTeams)
      THEN AssignRandom(sortedGroups, 1, st0, RandSource(s))
      ELSE {[st |-> AssignBalanced(sortedGroups, 1, st0), src |-> [seeded |-> FALSE, state |-> <<0, 0>>]]}

\* the teams left in the order they were filled
FinalTeams_FillOrder(teamLists) ==
  [i \in 1..Len(teamLists) |->
     [id |-> i, players |-> teamLists[i], teamHandicap |-> SumCH(teamLists[i])]]

\* the handicap of the team that was filled i-th kept at position i
FinalTeams_StaleHandicap(teamLists) ==
  LET teamsInit == [i \in 1..Len(teamLists) |->
                      [id |-> i, players |-> teamLists[i], teamHandicap |-> SumCH(teamLists[i])]]
      sorted == Sort("teams", teamsInit)
  IN  [i \in 1..Len(sorted) |->
         [sorted[i] EXCEPT !.id = i, !.teamHandicap = SumCH(teamLists[i])]]

\* lines 303-317: team handicaps, final order, renumbering
FinalTeams(teamLists) ==
  LET teamsInit == [i \in 1..Len(teamLists) |->
                      [id |-> i, players |-> teamLists[i], teamHandicap |-> SumCH(teamLists[i])]]
      sorted == Sort("teams", teamsInit)
  IN  [i \in 1..Len(sorted) |-> [sorted[i] EXCEPT !.id = i]]

\* the exits of one call: what is returned or thrown, the locals at exit and
\* the state of the generator closure the call leaves behind
generateGame(crs, plist, s, t0) ==
  LET enriched == [i \in 1..Len(plist) |-> computePlayerCH(crs, plist[i])]
      teamSizes == determineTeamSizes(Len(enriched))
      groups == GroupsOf(GroupsMap(enriched, <<>>))
  IN  {LET st == x.st
           loc == [teamSizes |-> teamSizes, sortedGroups |-> x.sg,
                   remaining |-> st.remaining, remLog |-> st.remLog,
                   placed |-> st.placed, fallback |-> st.fallback]
           teams == FinalTeams(st.teams)
           pay == Payouts(s, Len(enriched), Len(teams))
       IN  [outcome |-> IF st.thrown
                        THEN [kind |-> "error", size |-> st.errSize]
                        ELSE [kind |-> "result", course |-> crs, teams |-> teams,
                              totalPlayers |-> Len(enriched),
                              prizePool |-> pay.prizePool, skinsPool |-> pay.skinsPool,
                              payouts |-> pay.payouts],
            locals |-> loc,
            t |-> IF x.src.seeded THEN x.src.state ELSE t0]
       : x \in UNION {{[sg |-> sg, st |-> e.st, src |-> e.src] : e \in Assign(sg, teamSizes, s)}
                       : sg \in SortedGroups(groups, s)}}

(***************************************************************************)
(* Roster editor and team board of CourseManager                           *)
(***************************************************************************)
\* the game state null
NoGame == [kind |-> "none"]

toggleSelectPlayer(sel, id) == IF id \in sel THEN sel \ {id} ELSE sel \cup {id}

\* course.players.filter((p) => selectedPlayerIds.has(p.id)), as positions
SelectedOf(roster, sel) == {i \in DOMAIN roster : roster[i].id \in sel}

\* the guard that keeps an existing group at 4 members left out
linkSelectedPlayers_NoGrowCheck(roster, sel, fresh) ==
  LET selected == SelectedOf(roster, sel)
      distinctGroups == {roster[i].linkGroupId : i \in selected} \ {<<>>}
      groupId == IF distinctGroups = {} THEN <<fresh>> ELSE CHOOSE g \in distinctGroups : TRUE
  IN  IF Cardinality(selected) < 2 \/ Cardinality(selected) > 4
      THEN [linked |-> FALSE, players |-> roster]
      ELSE IF Cardinality(distinctGroups) > 1
      THEN [linked |-> FALSE, players |-> roster]
      ELSE [linked |-> TRUE,
            players |-> [i \in DOMAIN roster |->
                           IF i \in selected THEN [roster[i] EXCEPT !.linkGroupId = groupId]
                           ELSE roster[i]]]

\* linkSelectedPlayers: whether it stored a roster, and the roster after the
\* call; fresh is the id makeId('grp') returns
linkSelectedPlayers(roster, sel, fresh) ==
  LET selected == SelectedOf(roster, sel)
      distinctGroups == {roster[i].linkGroupId : i \in selected} \ {<<>>}
      groupId == IF distinctGroups = {} THEN <<fresh>> ELSE CHOOSE g \in distinctGroups : TRUE
      existingMembersCount == Cardinality({i \in DOMAIN roster : roster[i].linkGroupId = groupId})
      toAddCount == Cardinality({i \in selected : roster[i].linkGroupId = <<>>})
  IN  IF Cardinality(selected) < 2 \/ Cardinality(selected) > 4
      THEN [linked |-> FALSE, players |-> roster]
      ELSE IF Cardinality(distinctGroups) > 1
      THEN [linked |-> FALSE, players |-> roster]
      ELSE IF distinctGroups # {} /\ existingMembersCount + toAddCount > 4
      THEN [linked |-> FALSE, players |-> roster]
      ELSE [linked |-> TRUE,
            players |-> [i \in DOMAIN roster |->
                           IF i \in selected THEN [roster[i] EXCEPT !.linkGroupId = groupId]
                           ELSE roster[i]]]

\* unlinkSelectedPlayers: the roster after the call
unlinkSelectedPlayers(roster, sel) ==
  [i \in DOMAIN roster |->
     IF roster[i].id \in sel THEN [roster[i] EXCEPT !.linkGroupId = <<>>] ELSE roster[i]]

\* players.slice(0, index).concat(players.slice(index + 1)), index from 1
RemoveAt(roster, index) ==
  SubSeq(roster, 1, index - 1) \o SubSeq(roster, index + 1, Len(roster))

\* teams.find(t => t.id === teamId): its position, 0 when there is none
FindTeam(teams, teamId) ==
  LET hits == {k \in DOMAIN teams : teams[k].id = teamId}
  IN  IF hits = {} THEN 0 ELSE CHOOSE k \in hits : \A j \in hits : k <= j

\* the source team's teamHandicap left as it was
MovedTeams_TargetOnly(teams, src, index, tgt) ==
  LET moved == teams[src].players[index]
      without == [teams EXCEPT ![src].players = RemoveAt(@, index)]
      lists == [without EXCEPT ![tgt].players = Append(@, moved)]
  IN  [lists EXCEPT ![tgt].teamHandicap = SumCH(lists[tgt].players)]

\* the teams after the player at position index of team src went to the end
\* of team tgt, every teamHandicap recomputed
MovedTeams(teams, src, index, tgt) ==
  LET moved == teams[src].players[index]
      without == [teams EXCEPT ![src].players = RemoveAt(@, index)]
      lists == [without EXCEPT ![tgt].players = Append(@, moved)]
  IN  [k \in DOMAIN lists |-> [lists[k] EXCEPT !.teamHandicap = SumCH(lists[k].players)]]

\* a drop on the player's own team carried out like any other
handleDrop_NoSameTeamReturn(g, dragged, targetTeamId) ==
  IF dragged = <<>> \/ g = NoGame THEN [game |-> g, draggedPlayer |-> dragged]
  ELSE LET src == FindTeam(g.teams, dragged[1].teamId)
           tgt == FindTeam(g.teams, targetTeamId)
           playerIndex == dragged[1].playerIndex
       IN  IF src = 0 \/ tgt = 0 THEN [game |-> g, draggedPlayer |-> dragged]
           ELSE IF playerIndex >= Len(g.teams[src].players)
           THEN [game |-> g, draggedPlayer |-> dragged]
           ELSE [game |-> [g EXCEPT !.teams = MovedTeams(g.teams, src, playerIndex + 1, tgt)],
                 draggedPlayer |-> <<>>]

\* handleDrop: the game and the drag state after the call. playerIndex counts
\* from 0. With no player at playerIndex, splice yields nothing, undefined is
\* pushed and the recomputation of teamHandicap throws before setGame.
handleDrop(g, dragged, targetTeamId) ==
  IF dragged = <<>> \/ g = NoGame THEN [game |-> g, draggedPlayer |-> dragged]
  ELSE LET src == FindTeam(g.teams, dragged[1].teamId)
           tgt == FindTeam(g.teams, targetTeamId)
           playerIndex == dragged[1].playerIndex
       IN  IF dragged[1].teamId = targetTeamId THEN [game |-> g, draggedPlayer |-> dragged]
           ELSE IF src = 0 \/ tgt = 0 THEN [game |-> g, draggedPlayer |-> dragged]
           ELSE IF playerIndex >= Len(g.teams[src].players)
           THEN [game |-> g, draggedPlayer |-> dragged]
           ELSE [game |-> [g EXCEPT !.teams = MovedTeams(g.teams, src, playerIndex + 1, tgt)],
                 draggedPlayer |-> <<>>]

(***************************************************************************)
(* Inputs                                                                  *)
(***************************************************************************)
\* defaultSlopes of CourseManager
DefaultCourse == [slopes |-> [white |-> <<120>>, blue |-> <<122>>, red |-> <<121>>]]

Tees == <<"white", "blue", "red">>

HandicapProfiles == {"spread", "flat"}

\* handicap index (tenths) of the i-th player of a roster
HandicapOf(profile, i) ==
  IF profile = "flat" THEN 104 ELSE ((i * 83) % 290) - 30

LinkChoices(maxLink) == {<<>>} \cup {<<g>> : g \in 1..maxLink}

Roster(n, profile, links) ==
  [i \in 1..n |-> [id |-> i, handicapIndex |-> HandicapOf(profile, i),
                   tee |-> Tees[(i % 3) + 1], linkGroupId |-> links[i]]]

\* link ids are handed out in roster order: id g + 1 is first used after id g
InOrderOfFirstUse(links) ==
  \A i \in DOMAIN links :
    (links[i] # <<>> /\ links[i][1] > 1) =>
      \E j \in 1..(i - 1) : links[j] = <<links[i][1] - 1>>

\* rosters of up to maxN players with link ids up to maxLink
Rosters(maxN, maxLink, profiles) ==
  UNION {{Roster(n, profile, links) :
            profile \in profiles,
            links \in {l \in [1..n -> LinkChoices(maxLink)] : InOrderOfFirstUse(l)}}
         : n \in 0..maxN}

\* rosters of n players of which the first k, for any k, share one link id
PrefixLinkedRosters(n) ==
  {Roster(n, "spread", [i \in 1..n |-> IF i <= k THEN <<1>> ELSE <<>>]) : k \in 0..n}

SeedChoices == {<<>>} \cup {<<k>> : k \in 1..MaxSeed}

\* the fees the UI starts with (entryFee '20', skinsFee '5', paidPlaces unset here)
MainSettings ==
  [entryFeePerPlayer : {20}, skinsPoolPerPlayer : {<<5>>}, paidPlaces : {<<>>},
   randomizeTeams : {<<>>, <<TRUE>>}, randomSeed : SeedChoices]

PaySettings ==
  [entryFeePerPlayer : (0 - 1)..MaxFee, skinsPoolPerPlayer : {<<5>>},
   paidPlaces : {<<>>} \cup {<<k>> : k \in 0..MaxPlaces},
   randomizeTeams : {<<FALSE>>}, randomSeed : {<<>>}]

\* every policy and seed, except the unseeded randomized one
DetSettings ==
  {s \in [entryFeePerPlayer : {20}, skinsPoolPerPlayer : {<<5>>}, paidPlaces : {<<>>},
          randomizeTeams : {<<>>, <<TRUE>>}, randomSeed : SeedChoices] :
     Truthy(s.randomizeTeams) => s.randomSeed # <<>>}

\* onGenerateGame passes fee 20, skins 5, the seed, randomizeTeams and
\* paidPlaces 3 of the component state
BoardSettings ==
  [entryFeePerPlayer : {20}, skinsPoolPerPlayer : {<<5>>}, paidPlaces : {<<3>>},
   randomizeTeams : {<<FALSE>>, <<TRUE>>}, randomSeed : {<<1>>}]

NoOutcome == [kind |-> "none"]

NoArgs == [course |-> DefaultCourse, hi |-> 0, tee |-> "none"]

\* what the add and edit forms submit: handicap index (tenths) and tee
FormHcps == {104}

FormTees == {"white"}

\* what the edit form submits when the user changes the handicap index
EditHcps == {104, 57}

\* the rows of the players panel the user ticks, and the rows the user edits
\* and removes (counted from 1)
TickRows == {1, 2}

EditRows == {1}

\* the teams the user drags from, and the rows of them (counted from 0)
DragTeams == {1}

DragRows == {0, 1}

MinSlope == 110

\* a tee's slope: unset, 0, or a rating around the neutral 113
SlopeChoices == {<<>>, <<0>>} \cup {<<r>> : r \in MinSlope..MaxSlope}

NoLocals == [teamSizes |-> <<>>, sortedGroups |-> <<>>, remaining |-> <<>>,
             remLog |-> <<>>, placed |-> 0, fallback |-> FALSE]

(***************************************************************************)
(* State machine: calls of generateGame, calls of determineTeamSizes       *)
(***************************************************************************)
\* CourseManager as mounted on the roster: nothing ticked, generated or
\* dragged; the ids handed out next are unused ones
InitUI ==
  /\ selectedPlayerIds = {}
  /\ nextPlayerId = Len(players) + 1
  /\ nextGroupId = Cardinality({players[i].linkGroupId : i \in DOMAIN players} \ {<<>>}) + 1
  /\ game = NoGame
  /\ draggedPlayer = <<>>

InitWith(rosters, settingsSet) ==
  /\ course = DefaultCourse
  /\ players \in rosters
  /\ settings \in settingsSet
  /\ outcome = NoOutcome
  /\ locals = NoLocals
  /\ t = <<0, 0>>
  /\ history = <<>>
  /\ planTotal = 0
  /\ planSizes = <<>>
  /\ hcpArgs = NoArgs
  /\ hcpResult = <<>>
  /\ InitUI

\* one call generateGame(course, players, s)
GenerateGame(s) ==
  \E x \in generateGame(course, players, s, t) :
    /\ settings' = s
    /\ outcome' = x.outcome
    /\ locals' = x.locals
    /\ t' = x.t
    /\ history' = Append(history, [settings |-> s, outcome |-> x.outcome])
    /\ UNCHANGED <<course, players, planVars, hcpVars, uiVars>>

\* the first call, with the settings chosen initially
Generate ==
  /\ history = <<>>
  /\ GenerateGame(settings)

\* a further call on the same roster, with any settings
Regenerate ==
  /\ history # <<>>
  /\ Len(history) < MaxCalls
  /\ \E s \in DetSettings : GenerateGame(s)

\* one call determineTeamSizes(planTotal)
PlanTeams ==
  /\ planSizes = <<>>
  /\ planSizes' = determineTeamSizes(planTotal)
  /\ UNCHANGED <<callVars, planTotal, hcpVars, uiVars>>

\* one call courseHandicapFor(course, hi, tee)
CourseHandicap ==
  /\ hcpResult = <<>>
  /\ hcpArgs # NoArgs
  /\ hcpResult' = <<courseHandicapFor(hcpArgs.course, hcpArgs.hi, hcpArgs.tee)>>
  /\ UNCHANGED <<callVars, planVars, hcpArgs, uiVars>>

\* every roster up to MaxPlayers with link groups, both policies
Init == InitWith(Rosters(MaxPlayers, MaxLinks, HandicapProfiles), MainSettings)

Next == Generate

Spec == Init /\ [][Next]_vars

\* larger unlinked rosters, the fee and paid-places settings
InitPay == InitWith(Rosters(MaxPayPlayers, 0, {"flat"}), PaySettings)

SpecPay == InitPay /\ [][Next]_vars

\* repeated calls on one roster
InitDet == InitWith(PrefixLinkedRosters(MaxDetPlayers), DetSettings)

NextDet == Generate \/ Regenerate

SpecDet == InitDet /\ [][NextDet]_vars

\* rosters up to MaxGroupPlayers whose first k players share one link id, so
\* that link groups above 4 members and teams of equal size occur
InitGroups ==
  InitWith(UNION {PrefixLinkedRosters(n) : n \in 0..MaxGroupPlayers}, DetSettings)

SpecGroups == InitGroups /\ [][Next]_vars

\* rosters up to MaxSingles in which no player has a linkGroupId, both
\* policies; Math.random, which covers the draws of every seed, up to
\* MaxUnseeded players, the seeds of SeedChoices on every roster
InitSingles ==
  /\ InitWith(Rosters(MaxSingles, 0, HandicapProfiles), MainSettings)
  /\ (Truthy(settings.randomizeTeams) /\ settings.randomSeed = <<>>)
       => Len(players) <= MaxUnseeded

SpecSingles == InitSingles /\ [][Next]_vars

\* the team-size planner alone
InitSizes ==
  /\ course = DefaultCourse
  /\ players = <<>>
  /\ settings \in {s \in MainSettings : s.randomizeTeams = <<>> /\ s.randomSeed = <<>>}
  /\ outcome = NoOutcome
  /\ locals = NoLocals
  /\ t = <<0, 0>>
  /\ history = <<>>
  /\ planTotal \in 0..MaxTotal
  /\ planSizes = <<>>
  /\ hcpArgs = NoArgs
  /\ hcpResult = <<>>
  /\ InitUI

NextSizes == PlanTeams

SpecSizes == InitSizes /\ [][NextSizes]_vars

\* the course handicap alone: every handicap index of -MaxHcp..MaxHcp tenths,
\* every tee, the tee's slope unset, 0 or MinSlope..MaxSlope
InitHcp ==
  /\ course = DefaultCourse
  /\ players = <<>>
  /\ settings \in {s \in MainSettings : s.randomizeTeams = <<>> /\ s.randomSeed = <<>>}
  /\ outcome = NoOutcome
  /\ locals = NoLocals
  /\ t = <<0, 0>>
  /\ history = <<>>
  /\ planTotal = 0
  /\ planSizes = <<>>
  /\ \E tee \in {Tees[i] : i \in DOMAIN Tees}, slope \in SlopeChoices,
        hi \in (0 - MaxHcp)..MaxHcp :
       hcpArgs = [course |-> [slopes |-> [DefaultCourse.slopes EXCEPT ![tee] = slope]],
                  hi |-> hi, tee |-> tee]
  /\ hcpResult = <<>>
  /\ InitUI

NextHcp == CourseHandicap

SpecHcp == InitHcp /\ [][NextHcp]_vars

(***************************************************************************)
(* State machine: the roster editor of CourseManager                       *)
(***************************************************************************)
\* addPlayer: the form's linkGroupId is undefined in every state (each
\* setPlayerForm writes undefined or keeps it)
AddPlayer ==
  /\ Len(players) < MaxRoster
  /\ nextPlayerId <= MaxRoster
  /\ \E hi \in FormHcps, tee \in FormTees :
       players' = Append(players, [id |-> nextPlayerId, handicapIndex |-> hi,
                                   tee |-> tee, linkGroupId |-> <<>>])
  /\ game' = NoGame
  /\ nextPlayerId' = nextPlayerId + 1
  /\ selectedPlayerIds' = {}
  /\ UNCHANGED <<course, settings, outcome, locals, t, history, planVars, hcpVars,
                 nextGroupId, draggedPlayer>>

\* saveEditPlayer. editingIndex, which startEditPlayer sets and deletePlayer
\* resets only when it deletes that very position, is any position at the
\* time of the call; with no player there (the roster shrank below it),
\* existing.id throws and nothing is stored
SaveEditPlayerWith(rows, hcps) ==
  /\ \E editingIndex \in rows :
       IF editingIndex \in DOMAIN players
       THEN /\ \E hi \in hcps, tee \in FormTees :
                 players' = [players EXCEPT ![editingIndex] =
                               [id |-> @.id, handicapIndex |-> hi, tee |-> tee,
                                linkGroupId |-> @.linkGroupId]]
            /\ game' = NoGame
       ELSE UNCHANGED <<players, game>>
  /\ UNCHANGED <<course, settings, outcome, locals, t, history, planVars, hcpVars,
                 selectedPlayerIds, nextPlayerId, nextGroupId, draggedPlayer>>

\* the edit form submitted for any row, with what the add form submits
SaveEditPlayer == SaveEditPlayerWith(1..MaxRoster, FormHcps)

\* deletePlayer on the Remove button of one of the given rows
DeletePlayerAmong(rows) ==
  /\ \E index \in DOMAIN players \cap rows : players' = RemoveAt(players, index)
  /\ game' = NoGame
  /\ selectedPlayerIds' = {}
  /\ UNCHANGED <<course, settings, outcome, locals, t, history, planVars, hcpVars,
                 nextPlayerId, nextGroupId, draggedPlayer>>

DeletePlayer == DeletePlayerAmong(1..MaxRoster)

\* toggleSelectPlayer on the checkbox of one of the given rows
ToggleSelectAmong(rows) ==
  /\ \E i \in DOMAIN players \cap rows :
       selectedPlayerIds' = toggleSelectPlayer(selectedPlayerIds, players[i].id)
  /\ UNCHANGED <<callVars, planVars, hcpVars, nextPlayerId, nextGroupId, game,
                 draggedPlayer>>

ToggleSelectPlayer == ToggleSelectAmong(1..MaxRoster)

ClearSelection ==
  /\ selectedPlayerIds # {}
  /\ selectedPlayerIds' = {}
  /\ UNCHANGED <<callVars, planVars, hcpVars, nextPlayerId, nextGroupId, game,
                 draggedPlayer>>

\* linkSelectedPlayers: an early return changes nothing, the selection
\* included
LinkSelectedPlayers ==
  \E r \in {linkSelectedPlayers(players, selectedPlayerIds, nextGroupId)} :
    \E made \in {r.linked /\ \E i \in DOMAIN players :
                                r.players[i].linkGroupId = <<nextGroupId>>} :
      /\ made => nextGroupId <= MaxGroupIds
      /\ players' = r.players
      /\ selectedPlayerIds' = IF r.linked THEN {} ELSE selectedPlayerIds
      /\ nextGroupId' = IF made THEN nextGroupId + 1 ELSE nextGroupId
      /\ UNCHANGED <<course, settings, outcome, locals, t, history, planVars, hcpVars,
                     nextPlayerId, game, draggedPlayer>>

UnlinkSelectedPlayers ==
  /\ SelectedOf(players, selectedPlayerIds) # {}
  /\ players' = unlinkSelectedPlayers(players, selectedPlayerIds)
  /\ selectedPlayerIds' = {}
  /\ UNCHANGED <<course, settings, outcome, locals, t, history, planVars, hcpVars,
                 nextPlayerId, nextGroupId, game, draggedPlayer>>

\* CourseManager on a course with an empty roster
InitRoster ==
  /\ course = DefaultCourse
  /\ players = <<>>
  /\ settings \in {s \in MainSettings : s.randomizeTeams = <<>> /\ s.randomSeed = <<>>}
  /\ outcome = NoOutcome
  /\ locals = NoLocals
  /\ t = <<0, 0>>
  /\ history = <<>>
  /\ planTotal = 0
  /\ planSizes = <<>>
  /\ hcpArgs = NoArgs
  /\ hcpResult = <<>>
  /\ InitUI

NextRoster ==
  \/ AddPlayer
  \/ SaveEditPlayer
  \/ DeletePlayer
  \/ ToggleSelectPlayer
  \/ ClearSelection
  \/ LinkSelectedPlayers
  \/ UnlinkSelectedPlayers

SpecRoster == InitRoster /\ [][NextRoster]_vars

(***************************************************************************)
(* State machine: the team board of CourseManager                          *)
(***************************************************************************)
\* onGenerateGame, behind the Generate button (shown while game is null,
\* enabled by canGenerateGame); when generateGame throws, setGame is not
\* reached. The component keeps nothing of the call but the game.
OnGenerateGame ==
  /\ game = NoGame
  /\ Len(players) >= 2
  /\ \E x \in generateGame(course, players, settings, t) :
       game' = IF x.outcome.kind = "result" THEN x.outcome ELSE game
  /\ UNCHANGED <<callVars, planVars, hcpVars, selectedPlayerIds, nextPlayerId,
                 nextGroupId, draggedPlayer>>

\* handleDragStart on a player shown on the board, in one of the given rows
\* of one of the given teams; playerIndex counts from 0
HandleDragStartAmong(teamIds, rows) ==
  /\ game # NoGame
  /\ \E k \in DOMAIN game.teams :
       /\ game.teams[k].id \in teamIds
       /\ \E playerIndex \in (0..(Len(game.teams[k].players) - 1)) \cap rows :
         draggedPlayer' = <<[teamId |-> game.teams[k].id, playerIndex |-> playerIndex]>>
  /\ UNCHANGED <<callVars, planVars, hcpVars, selectedPlayerIds, nextPlayerId,
                 nextGroupId, game>>

HandleDragStart == HandleDragStartAmong(1..MaxMovePlayers, 0..MaxMovePlayers)

HandleDragEnd ==
  /\ draggedPlayer # <<>>
  /\ draggedPlayer' = <<>>
  /\ UNCHANGED <<callVars, planVars, hcpVars, selectedPlayerIds, nextPlayerId,
                 nextGroupId, game>>

\* handleDrop on a team shown on the board
HandleDrop ==
  /\ game # NoGame
  /\ \E k \in DOMAIN game.teams :
       LET r == handleDrop(game, draggedPlayer, game.teams[k].id)
       IN  game' = r.game /\ draggedPlayer' = r.draggedPlayer
  /\ UNCHANGED <<callVars, planVars, hcpVars, selectedPlayerIds, nextPlayerId,
                 nextGroupId>>

\* unlinked rosters up to MaxMovePlayers; the settings CourseManager passes
InitMove == InitWith(Rosters(MaxMovePlayers, 0, {"spread"}), BoardSettings)

NextMove ==
  \/ OnGenerateGame
  \/ HandleDragStart
  \/ HandleDragEnd
  \/ HandleDrop

SpecMove == InitMove /\ [][NextMove]_vars

(***************************************************************************)
(* State machine: CourseManager as the user drives it                      *)
(***************************************************************************)
\* the roster controls on screen whether or not a game is shown
PlayersPanelShown_Always == TRUE

\* the add form, the edit form and the players panel are rendered only
\* while game is null (lines 587, 690, 765)
PlayersPanelShown == game = NoGame

\* addTestPlayers: count players with ids from makeId('pl'); count is
\* 3..8 in the source, here what still fits the roster
AddTestPlayers ==
  /\ \E count \in 3..8 :
       /\ Len(players) + count <= MaxRoster
       /\ nextPlayerId + count - 1 <= MaxRoster
       /\ \E hi \in FormHcps, tee \in FormTees :
            players' = players \o [i \in 1..count |->
                                     [id |-> nextPlayerId + i - 1, handicapIndex |-> hi,
                                      tee |-> tee, linkGroupId |-> <<>>]]
       /\ nextPlayerId' = nextPlayerId + count
  /\ game' = NoGame
  /\ selectedPlayerIds' = {}
  /\ UNCHANGED <<course, settings, outcome, locals, t, history, planVars, hcpVars,
                 nextGroupId, draggedPlayer>>

\* onRegenerate, behind the Regenerate button (shown while a game is): the
\* seed goes up by one, which (seed + 1) >>> 0 is below 2^32 - 1; setSeed is
\* queued before generateGame is called, so it takes effect when the call
\* throws, and setGame is not reached then
OnRegenerate ==
  /\ game # NoGame
  /\ settings.randomSeed[1] < MaxUISeed
  /\ \E s \in {[settings EXCEPT !.randomSeed = <<settings.randomSeed[1] + 1>>]} :
       \E x \in generateGame(course, players, s, t) :
         /\ settings' = s
         /\ game' = IF x.outcome.kind = "result" THEN x.outcome ELSE game
  /\ UNCHANGED <<course, players, outcome, locals, t, history, planVars, hcpVars,
                 selectedPlayerIds, nextPlayerId, nextGroupId, draggedPlayer>>

\* onClearGame, behind the Clear button (shown while a game is)
OnClearGame ==
  /\ game # NoGame
  /\ game' = NoGame
  /\ UNCHANGED <<callVars, planVars, hcpVars, selectedPlayerIds, nextPlayerId,
                 nextGroupId, draggedPlayer>>

\* CourseManager on a course with an empty roster, the Random Teams box
\* ticked or not
InitManager ==
  /\ course = DefaultCourse
  /\ players = <<>>
  /\ settings \in BoardSettings
  /\ outcome = NoOutcome
  /\ locals = NoLocals
  /\ t = <<0, 0>>
  /\ history = <<>>
  /\ planTotal = 0
  /\ planSizes = <<>>
  /\ hcpArgs = NoArgs
  /\ hcpResult = <<>>
  /\ InitUI

\* a click reaches the page only between drags: from dragstart to dragend
\* the browser delivers drag events only
NoDragInProgress == draggedPlayer = <<>>

\* every handler behind a control that is on screen; the user ticks and
\* edits the rows of TickRows and EditRows and drags the rows of DragRows
\* of the teams of DragTeams
NextManager ==
  \/ PlayersPanelShown /\ AddPlayer
  \/ PlayersPanelShown /\ AddTestPlayers
  \/ PlayersPanelShown /\ SaveEditPlayerWith(EditRows, EditHcps)
  \/ PlayersPanelShown /\ DeletePlayerAmong(EditRows)
  \/ PlayersPanelShown /\ ToggleSelectAmong(TickRows)
  \/ PlayersPanelShown /\ ClearSelection
  \/ PlayersPanelShown /\ LinkSelectedPlayers
  \/ PlayersPanelShown /\ UnlinkSelectedPlayers
  \/ OnGenerateGame
  \/ NoDragInProgress /\ OnRegenerate
  \/ NoDragInProgress /\ OnClearGame
  \/ HandleDragStartAmong(DragTeams, DragRows)
  \/ HandleDragEnd
  \/ HandleDrop

SpecManager == InitManager /\ [][NextManager]_vars

(***************************************************************************)
(* Observations used by the properties                                     *)
(***************************************************************************)
Returned == outcome.kind = "result"

Threw == outcome.kind = "error"

\* the teams (1-based positions in the returned list) that list player pid
TeamsOf(pid) ==
  {k \in DOMAIN outcome.teams :
     \E m \in DOMAIN outcome.teams[k].players : outcome.teams[k].players[m].id = pid}

\* how many times player pid is listed over all returned teams
Occurrences(pid) ==
  Cardinality({<<k, m>> \in (DOMAIN outcome.teams) \X (1..Len(players)) :
                 /\ m \in DOMAIN outcome.teams[k].players
                 /\ outcome.teams[k].players[m].id = pid})

LinkMembers(link) == {i \in DOMAIN players : players[i].linkGroupId = link}

NoGroupAboveFour ==
  \A i \in DOMAIN players :
    players[i].linkGroupId # <<>> => Cardinality(LinkMembers(players[i].linkGroupId)) <= 4

CountOf(seq, v) == Cardinality({i \in DOMAIN seq : seq[i] = v})

TeamSizesOf(teams) == [k \in DOMAIN teams |-> Len(teams[k].players)]

PayoutAmounts == [i \in DOMAIN outcome.payouts |-> outcome.payouts[i].amount]

Clamp(v, lo, hi) == Max(lo, Min(v, hi))

\* which exit of roundPayoutsPrefer10Then5 the call of the current state took
PayoutExit ==
  LET pool == Max(0, settings.entryFeePerPlayer * Len(players))
      places == Max(1, IF settings.paidPlaces = <<>> THEN 3 ELSE settings.paidPlaces[1])
      ratios == basePayoutRatios(places, Len(outcome.teams))
      raw == [i \in 1..Len(ratios) |-> <<ratios[i][1] * pool, ratios[i][2]>>]
  IN  IF tryRound(raw, pool, 10).sum = pool THEN "ten"
      ELSE IF tryRound(raw, pool, 5).sum = pool THEN "five" ELSE "residual"

\* the team sizes the comments of determineTeamSizes document for a total n
DocumentedSizes(n) ==
  CASE n <= 4 -> <<n>>
    [] n = 5 -> <<3, 2>>
    [] n > 5 /\ n % 4 = 0 -> [i \in 1..(n \div 4) |-> 4]
    [] n > 5 /\ n % 4 = 3 -> [i \in 1..(n \div 4 + 1) |-> IF i <= n \div 4 THEN 4 ELSE 3]
    [] n > 5 /\ n % 4 = 2 -> [i \in 1..(n \div 4 + 1) |-> IF i <= n \div 4 - 1 THEN 4 ELSE 3]
    [] n > 5 /\ n % 4 = 1 -> [i \in 1..(n \div 4 + 1) |-> IF i <= n \div 4 - 2 THEN 4 ELSE 3]

\* the roster's members of link group link, in roster order
LinkSeq(link) ==
  LET InLink(p) == p.linkGroupId = link
  IN  SelectSeq(players, InLink)

\* the groups of the last call whose id derives from link id l
GroupsFrom(l) ==
  {i \in DOMAIN locals.sortedGroups :
     locals.sortedGroups[i].id[1] = 0 /\ locals.sortedGroups[i].id[2] = l}

\* the course handicaps of a list of players, computed from index and tee
HandicapsOf(ps) ==
  [m \in DOMAIN ps |-> courseHandicapFor(course, ps[m].handicapIndex, ps[m].tee)]

IdsOf(ps) == [m \in DOMAIN ps |-> ps[m].id]

\* the numerator n of the call's exact quotient handicapIndex * slope / 113,
\* which is n / 1130 for an index in tenths
HcpQuotient ==
  LET sl == hcpArgs.course.slopes[hcpArgs.tee]
  IN  hcpArgs.hi * (IF sl = <<>> THEN 0 ELSE sl[1])

SlopeMissing ==
  \/ hcpArgs.course.slopes[hcpArgs.tee] = <<>>
  \/ hcpArgs.course.slopes[hcpArgs.tee] = <<0>>

\* the selection is one on which the link operation is refused: fewer than
\* 2 or more than 4 players, two different existing groups, or an existing
\* group that would grow beyond 4 members
RefusedSelection ==
  LET selected == SelectedOf(players, selectedPlayerIds)
      groups == {players[i].linkGroupId : i \in selected} \ {<<>>}
  IN  \/ Cardinality(selected) < 2
      \/ Cardinality(selected) > 4
      \/ Cardinality(groups) >= 2
      \/ \E g \in groups : Cardinality(LinkMembers(g) \cup selected) > 4

\* the game after the move of the drag in progress onto team targetTeamId
MovedOnce(targetTeamId) == handleDrop(game, draggedPlayer, targetTeamId).game

\* the game after the same move (same source team id, player index and
\* target team id) is applied to that result again
MovedTwice(targetTeamId) ==
  handleDrop(MovedOnce(targetTeamId), draggedPlayer, targetTeamId).game

TeamIds == {game.teams[k].id : k \in DOMAIN game.teams}

\* the dragged player is the last one listed in its team
DraggedIsLast ==
  LET src == FindTeam(game.teams, draggedPlayer[1].teamId)
  IN  draggedPlayer[1].playerIndex = Len(game.teams[src].players) - 1

\* the last call ran under the balanced policy
BalancedCall == outcome.kind # "none" /\ ~Truthy(settings.randomizeTeams)

\* the remaining capacities when the n-th group of the last call was placed
RemainingBefore(n) == IF n = 1 THEN locals.teamSizes ELSE locals.remLog[n - 1]

\* the team (position in the plan) the n-th group of the last call went to
PlacedIn(n) ==
  CHOOSE k \in DOMAIN locals.teamSizes : locals.remLog[n][k] # RemainingBefore(n)[k]

\* group a is due before group b under the balanced policy
BalancedBefore(a, b) ==
  \/ a.size > b.size
  \/ a.size = b.size /\ RatLess(a.strength, b.strength)
  \/ /\ a.size = b.size
     /\ a.strength[1] * b.strength[2] = b.strength[1] * a.strength[2]
     /\ localeCompare(a.id, b.id) < 0

\* the games onGenerateGame can put on display for the roster and the
\* settings of the current state
GeneratedGames ==
  {x.outcome : x \in {y \in generateGame(course, players, settings, t) :
                          y.outcome.kind = "result"}}

\* the game on display lists exactly the players of the roster, as
\* generateGame enriches them, and counts them in totalPlayers
GameShowsRoster ==
  game # NoGame =>
    /\ game.totalPlayers = Len(players)
    /\ SumSeq([k \in DOMAIN game.teams |-> Len(game.teams[k].players)]) = Len(players)
    /\ \A i \in DOMAIN players :
         \E k \in DOMAIN game.teams :
           \E m \in DOMAIN game.teams[k].players :
             game.teams[k].players[m] = computePlayerCH(course, players[i])

\* how many times player pid is listed over the teams of the game on display
GameOccurrences(pid) ==
  Cardinality({<<k, m>> \in (DOMAIN game.teams) \X (1..Len(players)) :
                 /\ m \in DOMAIN game.teams[k].players
                 /\ game.teams[k].players[m].id = pid})

\* the number of players listed over the teams of the game on display
GameListed == SumSeq([k \in DOMAIN game.teams |-> Len(game.teams[k].players)])

\* no player of the roster has a linkGroupId
Unlinked == \A i \in DOMAIN players : players[i].linkGroupId = <<>>

\* total - v5.sum of the call of the current state: what the last exit of
\* roundPayoutsPrefer10Then5 adds to first place
ResidualDiff ==
  LET pool == Max(0, settings.entryFeePerPlayer * Len(players))
      places == Max(1, IF settings.paidPlaces = <<>> THEN 3 ELSE settings.paidPlaces[1])
      ratios == basePayoutRatios(places, Len(outcome.teams))
      raw == [i \in 1..Len(ratios) |-> <<ratios[i][1] * pool, ratios[i][2]>>]
  IN  pool - tryRound(raw, pool, 5).sum

\* the ratios basePayoutRatios returned in the call of the current state
RatiosOfCall ==
  basePayoutRatios(Max(1, IF settings.paidPlaces = <<>> THEN 3 ELSE settings.paidPlaces[1]),
                   Len(outcome.teams))

\* the last call ran under the randomized policy
RandomizedCall == outcome.kind # "none" /\ Truthy(settings.randomizeTeams)

\* the groups of the roster in the order group formation leaves them
FormedGroups ==
  GroupsOf(GroupsMap([i \in DOMAIN players |-> computePlayerCH(course, players[i])], <<>>))

\* the exits of the call of the current state under every sequence of random
\* draws, those of every seed among them
AnySeedCalls == generateGame(course, players, [settings EXCEPT !.randomSeed = <<>>], t)

(***************************************************************************)
(* Properties                                                              *)
(***************************************************************************)
\* C1: for a roster with no link group above 4 members, under either policy,
\* the call returns (it does not throw), every group was placed and every
\* input player is listed exactly once over the returned teams.
C1_AlwaysCompletes ==
  (outcome.kind # "none" /\ NoGroupAboveFour) =>
    /\ Returned
    /\ locals.placed = Len(locals.sortedGroups)
    /\ \A i \in DOMAIN players : Occurrences(players[i].id) = 1

\* C2: in every returned result, players that share a linkGroupId whose group
\* has at most 4 members are all on one and the same team.
C2_GroupsNeverSplit ==
  Returned =>
    \A i, j \in DOMAIN players :
      (/\ players[i].linkGroupId # <<>>
       /\ players[i].linkGroupId = players[j].linkGroupId
       /\ Cardinality(LinkMembers(players[i].linkGroupId)) <= 4)
      => /\ TeamsOf(players[i].id) = TeamsOf(players[j].id)
         /\ Cardinality(TeamsOf(players[i].id)) = 1

\* a returned game of two teams or more in which a link group of two or more
\* sits on one team and another player on a different team
C2_Witness ==
  /\ Returned
  /\ Len(outcome.teams) >= 2
  /\ \E i, j, k \in DOMAIN players :
       /\ i # j
       /\ players[i].linkGroupId # <<>>
       /\ players[i].linkGroupId = players[j].linkGroupId
       /\ TeamsOf(players[k].id) # TeamsOf(players[i].id)

\* C3: during assignment no remaining capacity goes below 0, and in every
\* returned result every team has 1 to 4 players and the team sizes are, as a
\* multiset, determineTeamSizes(number of players).
C3_TeamSizesAsPlanned ==
  /\ \A n \in DOMAIN locals.remLog :
       \A k \in DOMAIN locals.remLog[n] : locals.remLog[n][k] >= 0
  /\ Returned =>
       /\ \A k \in DOMAIN outcome.teams :
            /\ Len(outcome.teams[k].players) >= 1
            /\ Len(outcome.teams[k].players) <= 4
       /\ Len(outcome.teams) = Len(determineTeamSizes(Len(players)))
       /\ \A v \in 0..4 :
            CountOf(TeamSizesOf(outcome.teams), v) = CountOf(determineTeamSizes(Len(players)), v)

\* C4: the payout amounts of a returned result sum exactly to its prizePool.
C4_PayoutsSumToPool ==
  Returned => SumSeq(PayoutAmounts) = outcome.prizePool

\* C5: the payout list of a returned result is non-increasing by place.
C5_PayoutsNonIncreasing ==
  Returned =>
    \A i \in 1..(Len(outcome.payouts) - 1) :
      outcome.payouts[i].amount >= outcome.payouts[i + 1].amount

\* a result whose payouts left by the residual fallback, where the final
\* clamp lowered second place to first place's amount
C5_Witness ==
  /\ Returned
  /\ Len(outcome.payouts) >= 2
  /\ PayoutExit = "residual"
  /\ outcome.payouts[1].amount = outcome.payouts[2].amount
  /\ outcome.payouts[1].amount > 0

\* C6: the number of payouts is clamp(paidPlaces, 1, number of teams), with
\* paidPlaces 3 when unset, and payout i carries place number i.
C6_PayoutCount ==
  Returned =>
    /\ Len(outcome.payouts) =
         Clamp(IF settings.paidPlaces = <<>> THEN 3 ELSE settings.paidPlaces[1],
               1, Len(outcome.teams))
    /\ \A i \in DOMAIN outcome.payouts : outcome.payouts[i].place = i

\* a result where the team count caps the requested places
C6_Witness ==
  /\ Returned
  /\ settings.paidPlaces # <<>>
  /\ Len(outcome.teams) >= 2
  /\ settings.paidPlaces[1] > Len(outcome.teams)
  /\ Len(outcome.payouts) = Len(outcome.teams)

\* C7: the call throws exactly when some group finds no team with remaining
\* capacity at least its size; the error then reports that group's size, no
\* result is returned, and the group was put nowhere (every team is still
\* within its capacity and holds only the groups placed before).
C7_ThrowReportsGroupSize ==
  LET k == locals.placed + 1
  IN  outcome.kind # "none" =>
        /\ Threw <=> k <= Len(locals.sortedGroups)
        /\ Threw =>
             /\ outcome.size = locals.sortedGroups[k].size
             /\ \A i \in DOMAIN locals.remaining : locals.remaining[i] < outcome.size
             /\ DOMAIN outcome = {"kind", "size"}
        /\ \A i \in DOMAIN locals.remaining : locals.remaining[i] >= 0
        /\ Len(locals.remLog) = locals.placed
        /\ SumSeq(locals.teamSizes) - SumSeq(locals.remaining)
             = SumSeq([n \in 1..locals.placed |-> locals.sortedGroups[n].size])

\* a call that threw for a group of 4 that no planned team could hold
C7_Witness ==
  /\ Threw
  /\ outcome.size = 4
  /\ Len(locals.remaining) = 2
  /\ Truthy(settings.randomizeTeams)

\* C8: under the randomized policy with a numeric seed, any two calls with the
\* same course, roster and settings have the same outcome, whatever calls
\* were made before or between them.
C8_SeededCallsAgree ==
  \A i, j \in DOMAIN history :
    (/\ history[i].settings = history[j].settings
     /\ Truthy(history[i].settings.randomizeTeams)
     /\ history[i].settings.randomSeed # <<>>)
    => history[i].outcome = history[j].outcome

\* two seeded randomized calls with the same seed around a call with another
\* seed that produced different teams
C8_Witness ==
  /\ Len(history) = 3
  /\ history[1].settings = history[3].settings
  /\ Truthy(history[1].settings.randomizeTeams)
  /\ Truthy(history[2].settings.randomizeTeams)
  /\ history[2].settings.randomSeed # history[1].settings.randomSeed
  /\ history[1].outcome.kind = "result"
  /\ history[2].outcome.kind = "result"
  /\ history[2].outcome.teams # history[1].outcome.teams
  /\ history[3].outcome = history[1].outcome

C10_SizesSumToTotal ==
  (planSizes # <<>> /\ planTotal >= 1) => SumSeq(planSizes) = planTotal

\* a plan for a total of the form 4q + 1 with q >= 2, which ends in three 3s
C10_Witness ==
  /\ planSizes # <<>>
  /\ planTotal >= 13
  /\ planTotal % 4 = 1
  /\ Len(planSizes) >= 4

\* C11: for every total n >= 1 no returned size is 5 or above 4; for n > 4
\* every size is 2, 3 or 4; a size of 2 appears only when n is 2 or 5.
C11_SizesInRange ==
  (planSizes # <<>> /\ planTotal >= 1) =>
    /\ \A i \in DOMAIN planSizes : planSizes[i] # 5 /\ planSizes[i] <= 4
    /\ planTotal > 4 => \A i \in DOMAIN planSizes : planSizes[i] \in {2, 3, 4}
    /\ (\E i \in DOMAIN planSizes : planSizes[i] = 2) => planTotal \in {2, 5}

\* the plan for 5 players, the one plan above 4 players that holds a 2
C11_Witness ==
  /\ planTotal = 5
  /\ planSizes # <<>>
  /\ \E i \in DOMAIN planSizes : planSizes[i] = 2

\* C12: for every n in 1..20 the returned list is the documented one, as an
\* ordered list: [n] for n <= 4; floor(n/4) fours when n mod 4 = 0; floor(n/4)
\* fours then one 3 when n mod 4 = 3; floor(n/4) - 1 fours then two 3s when
\* n mod 4 = 2 and n >= 6; floor(n/4) - 2 fours then three 3s when n mod 4 = 1
\* and n >= 9; [3, 2] for n = 5.
C12_SizesAsDocumented ==
  (planSizes # <<>> /\ planTotal \in 1..20) => planSizes = DocumentedSizes(planTotal)

\* a plan of the 4q + 2 case, fours followed by two 3s
C12_Witness ==
  /\ planTotal = 14
  /\ planSizes = <<4, 4, 3, 3>>

\* C13: in every returned GameResult the teams are in ascending order of
\* their number of players, teams of equal size in ascending order of
\* teamHandicap, and the team ids are exactly 1..k in output order.
C13_TeamsOrdered ==
  Returned =>
    /\ \A k \in DOMAIN outcome.teams : outcome.teams[k].id = k
    /\ \A k \in 1..(Len(outcome.teams) - 1) :
         LET a == outcome.teams[k]
             b == outcome.teams[k + 1]
         IN  \/ Len(a.players) < Len(b.players)
             \/ Len(a.players) = Len(b.players) /\ a.teamHandicap <= b.teamHandicap

\* a result whose plan put the larger team first, and with two teams of equal
\* size and different handicaps
C13_Witness ==
  /\ Returned
  /\ locals.teamSizes[1] > locals.teamSizes[Len(locals.teamSizes)]
  /\ Len(outcome.teams[1].players) < Len(outcome.teams[Len(outcome.teams)].players)
  /\ \E k \in 1..(Len(outcome.teams) - 1) :
       /\ Len(outcome.teams[k].players) = Len(outcome.teams[k + 1].players)
       /\ outcome.teams[k].teamHandicap < outcome.teams[k + 1].teamHandicap

\* C14: in every returned GameResult each team's teamHandicap is the sum of
\* the course handicaps of exactly the players listed in that team.
C14_TeamHandicapIsSum ==
  Returned =>
    \A k \in DOMAIN outcome.teams :
      outcome.teams[k].teamHandicap = SumSeq(HandicapsOf(outcome.teams[k].players))

\* a result with two teams of several players and different handicaps
C14_Witness ==
  /\ Returned
  /\ Len(outcome.teams) = 2
  /\ Len(outcome.teams[1].players) >= 2
  /\ outcome.teams[1].teamHandicap # outcome.teams[2].teamHandicap
  /\ outcome.teams[1].teamHandicap # 0

\* C15: a call with an empty roster does not fail and returns a GameResult
\* with zero teams, prizePool 0 and skinsPool 0.
C15_EmptyRosterNoTeams ==
  (players = <<>> /\ outcome.kind # "none") =>
    /\ Returned
    /\ Len(outcome.teams) = 0
    /\ outcome.prizePool = 0
    /\ outcome.skinsPool = 0

\* C16: a link group of m > 4 members is split into ceil(m / 4) chunks of at
\* most 4 consecutive members in roster order; each chunk is a group of its
\* own, with its own derived id and its own average course handicap as
\* strength (5 members: a group of 4 and a group of 1).
C16_LargeGroupChunked ==
  outcome.kind # "none" =>
    \A l \in 1..MaxLinks :
      LET ms == LinkSeq(<<l>>)
          m == Len(ms)
          chunks == (m + 3) \div 4
      IN  m > 4 =>
            /\ Cardinality(GroupsFrom(l)) = chunks
            /\ \A c \in 1..chunks :
                 \E i \in GroupsFrom(l) :
                   LET g == locals.sortedGroups[i]
                       part == SubSeq(ms, 4 * (c - 1) + 1, Min(4 * c, m))
                   IN  /\ g.id = <<0, l, c>>
                       /\ IdsOf(g.members) = IdsOf(part)
                       /\ g.size = Len(part)
                       /\ g.size <= 4
                       /\ g.strength = <<SumSeq(HandicapsOf(part)), Len(part)>>

\* a link group of 5 whose fifth member ended on another team than the
\* first four
C16_Witness ==
  /\ Returned
  /\ Len(LinkSeq(<<1>>)) = 5
  /\ Cardinality(GroupsFrom(1)) = 2
  /\ TeamsOf(LinkSeq(<<1>>)[5].id) # TeamsOf(LinkSeq(<<1>>)[1].id)

\* C17: for every handicap index, negative ones included, and every tee,
\* courseHandicapFor returns handicapIndex * slope / 113 rounded to the
\* nearest integer, exact halves rounded away from zero, and returns 0 when
\* the tee's slope is unset or 0.
C17_RoundsHalfAwayFromZero ==
  hcpResult # <<>> =>
    LET r == hcpResult[1]
        q == HcpQuotient
    IN  /\ SlopeMissing => r = 0
        /\ q >= 0 => (2 * 1130 * r - 1130 <= 2 * q /\ 2 * q < 2 * 1130 * r + 1130)
        /\ q < 0 => (2 * 1130 * r - 1130 < 2 * q /\ 2 * q <= 2 * 1130 * r + 1130)

\* C17, amended: courseHandicapFor returns handicapIndex * slope / 113
\* rounded to the nearest integer, exact halves rounded up (toward positive
\* infinity, so -1.5 gives -1), and returns 0 when the tee's slope is unset
\* or 0.
C17_RoundsHalfUp ==
  hcpResult # <<>> =>
    LET r == hcpResult[1]
        q == HcpQuotient
    IN  /\ SlopeMissing => r = 0
        /\ 2 * 1130 * r - 1130 <= 2 * q
        /\ 2 * q < 2 * 1130 * r + 1130

\* a negative exact half: index -1.5 on a tee of slope 113 gives -1
C17_Witness ==
  /\ hcpResult = <<0 - 1>>
  /\ hcpArgs.hi = 0 - 15
  /\ hcpArgs.course.slopes[hcpArgs.tee] = <<113>>

\* C18: whenever the effective number of paid places is 1 (paidPlaces at
\* most 1, or a single team), the result holds exactly one payout, for place
\* 1, whose amount is the full prizePool, for every prizePool, those that
\* are not multiples of 5 included.
C18_SinglePlaceTakesPool ==
  (/\ Returned
   /\ \/ Len(outcome.teams) = 1
      \/ settings.paidPlaces # <<>> /\ settings.paidPlaces[1] <= 1)
  => outcome.payouts = <<[place |-> 1, amount |-> outcome.prizePool]>>

\* several teams, one paid place and a prize pool that is no multiple of 5
C18_Witness ==
  /\ Returned
  /\ Len(outcome.teams) >= 2
  /\ settings.paidPlaces = <<1>>
  /\ outcome.prizePool % 5 # 0
  /\ outcome.payouts = <<[place |-> 1, amount |-> outcome.prizePool]>>

\* C19: in the roster editor, from an empty roster and after any sequence of
\* addPlayer, deletePlayer, saveEditPlayer, toggleSelectPlayer,
\* linkSelectedPlayers and unlinkSelectedPlayers, no linkGroupId is shared by
\* more than 4 players; and a linkSelectedPlayers call on a selection of
\* fewer than 2 or more than 4 players, or spanning two different existing
\* groups, or growing an existing group beyond 4, leaves the roster unchanged.
C19_LinkGroupsAtMostFour ==
  /\ NoGroupAboveFour
  /\ RefusedSelection =>
       linkSelectedPlayers(players, selectedPlayerIds, nextGroupId).players = players

\* a full group of 4, of which one member is ticked together with the fifth,
\* unlinked player
C19_Witness ==
  /\ Len(players) = 5
  /\ \E g \in {players[i].linkGroupId : i \in DOMAIN players} \ {<<>>} :
       /\ Cardinality(LinkMembers(g)) = 4
       /\ \E i, j \in SelectedOf(players, selectedPlayerIds) :
            players[i].linkGroupId = g /\ players[j].linkGroupId = <<>>
  /\ linkSelectedPlayers(players, selectedPlayerIds, nextGroupId).players = players

\* C20: the move-player operation (handleDrop with a given source team id,
\* player index and target team id) is idempotent: applying the same move
\* twice to a GameResult yields the same teams as applying it once.
C20_MoveIdempotent ==
  (game # NoGame /\ draggedPlayer # <<>>) =>
    \A tgt \in TeamIds : MovedTwice(tgt).teams = MovedOnce(tgt).teams

\* C20, amended: applying the same move twice yields the same teams as
\* applying it once exactly when the target is the source team (no change at
\* all) or the moved player was the last one listed in the source team (the
\* second application finds no player at that index and stores nothing);
\* in every other case the second application moves one more player.
C20_MoveIdempotentOnlyForLast ==
  (game # NoGame /\ draggedPlayer # <<>>) =>
    \A tgt \in TeamIds :
      (MovedTwice(tgt).teams = MovedOnce(tgt).teams)
        <=> (tgt = draggedPlayer[1].teamId \/ DraggedIsLast)

\* after an earlier drop changed the generated teams: a drag of a player
\* that is not the last of its team, with another team to drop it on
C20_Witness ==
  /\ game # NoGame
  /\ \A g \in GeneratedGames : game.teams # g.teams
  /\ draggedPlayer # <<>>
  /\ ~DraggedIsLast
  /\ \E tgt \in TeamIds :
       /\ tgt # draggedPlayer[1].teamId
       /\ MovedOnce(tgt).teams # game.teams
       /\ MovedTwice(tgt).teams # MovedOnce(tgt).teams

\* C21: under the balanced policy the groups are processed in order of size
\* descending, then strength (average course handicap) ascending, then
\* identifier; each placed group went to a team whose remaining capacity was
\* at least the group's size and the largest among such teams, and among the
\* teams tied for that capacity to the one of lowest index.
C21_BalancedOrderAndPlacement ==
  BalancedCall =>
    /\ \A i \in 1..(Len(locals.sortedGroups) - 1) :
         BalancedBefore(locals.sortedGroups[i], locals.sortedGroups[i + 1])
    /\ \A n \in 1..locals.placed :
         LET before == RemainingBefore(n)
             g == locals.sortedGroups[n]
             k == PlacedIn(n)
         IN  /\ before[k] >= g.size
             /\ locals.remLog[n] = [before EXCEPT ![k] = @ - g.size]
             /\ \A j \in DOMAIN before :
                  before[j] >= g.size =>
                    /\ before[j] <= before[k]
                    /\ before[j] = before[k] => k <= j

\* a balanced call in which a weaker single with the lower id was processed
\* after a stronger one, one group met two teams of equal remaining capacity
\* and another went to the second team
C21_Witness ==
  /\ BalancedCall
  /\ Returned
  /\ \E i \in 1..(Len(locals.sortedGroups) - 1) :
       LET a == locals.sortedGroups[i]
           b == locals.sortedGroups[i + 1]
       IN  a.size = b.size /\ RatLess(a.strength, b.strength)
           /\ localeCompare(a.id, b.id) > 0
  /\ Len(locals.teamSizes) = 2
  /\ \E n \in 1..locals.placed :
       /\ PlacedIn(n) = 1
       /\ RemainingBefore(n)[1] = RemainingBefore(n)[2]
  /\ \E n \in 1..locals.placed : PlacedIn(n) = 2

\* C22: after any sequence of handleDrop moves on a generated game, every
\* player of the game is in exactly one team, every teamHandicap is the sum
\* of the course handicaps of the team's current members, and prizePool,
\* skinsPool, payouts, totalPlayers and the team ids 1..k are those
\* generateGame computes for the roster and the settings of the game; a
\* drop on the dragged player's own team changes nothing, and a
\* drop on another team is carried out whatever the sizes of the two teams.
C22_DropKeepsGame ==
  game # NoGame =>
    /\ \A i \in DOMAIN players : GameOccurrences(players[i].id) = 1
    /\ GameListed = Len(players)
    /\ \A k \in DOMAIN game.teams :
         game.teams[k].teamHandicap = SumSeq(HandicapsOf(game.teams[k].players))
    /\ LET pay == Payouts(settings, Len(players), Len(game.teams))
       IN  /\ game.prizePool = pay.prizePool
           /\ game.skinsPool = pay.skinsPool
           /\ game.payouts = pay.payouts
    /\ game.totalPlayers = Len(players)
    /\ \A k \in DOMAIN game.teams : game.teams[k].id = k
    /\ Len(game.teams) = Len(determineTeamSizes(Len(players)))
    /\ draggedPlayer # <<>> =>
         /\ MovedOnce(draggedPlayer[1].teamId) = game
         /\ \A tgt \in TeamIds \ {draggedPlayer[1].teamId} :
              LET k == FindTeam(game.teams, tgt)
              IN  Len(MovedOnce(tgt).teams[k].players) = Len(game.teams[k].players) + 1

\* drops have left one team with five players and another with none, and a
\* further drag is in progress
C22_Witness ==
  /\ game # NoGame
  /\ draggedPlayer # <<>>
  /\ \E k \in DOMAIN game.teams : Len(game.teams[k].players) > 4
  /\ \E k \in DOMAIN game.teams : Len(game.teams[k].players) = 0
  /\ game.totalPlayers = 5

\* C23: for a roster of n >= 1 players none of which has a linkGroupId,
\* under either policy and whatever the random draws, the call does not
\* throw, places every group and fills every planned team exactly: no
\* capacity is left over and the returned team sizes are the planned ones.
C23_SinglesAlwaysPlaced ==
  (outcome.kind # "none" /\ Len(players) >= 1 /\ Unlinked) =>
    /\ Returned
    /\ locals.placed = Len(players)
    /\ \A k \in DOMAIN locals.remaining : locals.remaining[k] = 0
    /\ Len(outcome.teams) = Len(locals.teamSizes)
    /\ \A v \in 1..4 :
         CountOf(TeamSizesOf(outcome.teams), v) = CountOf(locals.teamSizes, v)

\* a randomized call on ten unlinked players, planned as teams of 4, 3 and 3
C23_Witness ==
  /\ Returned
  /\ Unlinked
  /\ Truthy(settings.randomizeTeams)
  /\ locals.teamSizes = <<4, 3, 3>>
  /\ locals.placed = 10

\* C24: whenever prizePool is a multiple of 5 and 1 to 5 places are paid,
\* the returned amounts are all multiples of 5 and sum exactly to prizePool;
\* and whenever the amounts rounded to 10 sum exactly to prizePool, the
\* returned amounts are all multiples of 10.
C24_MultiplesOfFive ==
  Returned =>
    /\ (outcome.prizePool % 5 = 0 /\ Len(outcome.payouts) <= 5) =>
         /\ \A i \in DOMAIN PayoutAmounts : PayoutAmounts[i] % 5 = 0
         /\ SumSeq(PayoutAmounts) = outcome.prizePool
    /\ PayoutExit = "ten" =>
         \A i \in DOMAIN PayoutAmounts : PayoutAmounts[i] % 10 = 0

\* five places paid from a pool that is a multiple of 5 but not of 10: the
\* amounts rounded to 5 were returned, one of them no multiple of 10
C24_Witness ==
  /\ Returned
  /\ outcome.prizePool % 10 = 5
  /\ Len(outcome.payouts) = 5
  /\ PayoutExit = "five"
  /\ \E i \in DOMAIN PayoutAmounts : PayoutAmounts[i] % 10 = 5
  /\ SumSeq(PayoutAmounts) = outcome.prizePool

\* C25: every payout amount of a returned result is a non-negative integer,
\* for every prizePool and every number of paid places, also when the last
\* exit of roundPayoutsPrefer10Then5 added a negative difference to first
\* place.
C25_PayoutsNonNegative ==
  Returned => \A i \in DOMAIN PayoutAmounts : PayoutAmounts[i] \in Nat

\* a result that left by the last exit with a negative difference added to
\* first place
C25_Witness ==
  /\ Returned
  /\ PayoutExit = "residual"
  /\ ResidualDiff < 0
  /\ outcome.payouts[1].amount > 0

\* C26: for every effective number of paid places n >= 1, those above 5
\* included, every ratio basePayoutRatios returns is non-negative, the ratios
\* are non-increasing by place, and they sum to 1.
C26_RatiosAreShares ==
  Returned =>
    /\ \A i \in DOMAIN RatiosOfCall : RatiosOfCall[i][1] >= 0
    /\ \A i \in 1..(Len(RatiosOfCall) - 1) :
         RatSub(RatiosOfCall[i], RatiosOfCall[i + 1])[1] >= 0
    /\ RatSum(RatiosOfCall) = <<1, 1>>

\* C27: for every n >= 1, determineTeamSizes(n) returns exactly ceil(n / 4)
\* sizes, the fewest teams that hold n players with none above 4, and lists
\* them largest first: every 4 before every 3, and a 2 last.
C27_FewestTeams ==
  (planSizes # <<>> /\ planTotal >= 1) =>
    /\ Len(planSizes) = (planTotal + 3) \div 4
    /\ \A i \in 1..(Len(planSizes) - 1) : planSizes[i] >= planSizes[i + 1]

\* a plan of the 4q + 2 case with fours and threes: five teams for 18
C27_Witness ==
  /\ planTotal = 18
  /\ planSizes = <<4, 4, 4, 3, 3>>
  /\ Len(planSizes) = 5

C30_FallbackNeverPlaces ==
  outcome.kind # "none" =>
    /\ ~locals.fallback
    /\ Threw =>
         /\ FirstFit(locals.remaining, outcome.size) = 0
         /\ \A k \in DOMAIN locals.remaining : locals.remaining[k] < outcome.size

\* a balanced call that threw on a plan of two teams or more: both searches
\* found no team for the group
C30_Witness ==
  /\ Threw
  /\ BalancedCall
  /\ Len(locals.remaining) >= 2
  /\ ~locals.fallback
  /\ FirstFit(locals.remaining, outcome.size) = 0

\* C29: in CourseManager, after any sequence of add, edit, delete, link,
\* unlink, generate, regenerate, clear and drop actions that the UI offers,
\* whenever a game is shown its totalPlayers is the length of the roster and
\* its teams hold exactly the players of the roster; and every step that
\* changes the roster leaves no game on display.
C29_GameMatchesRoster ==
  /\ []GameShowsRoster
  /\ [][players' # players => game' = NoGame]_vars

\* a regenerated game of two teams on a roster with an edited first player
\* and a link group, after a drop left four players on one team
C29_Witness ==
  /\ game # NoGame
  /\ settings.randomSeed = <<2>>
  /\ Len(game.teams) = 2
  /\ players[1].handicapIndex = 57
  /\ \E i \in DOMAIN players : players[i].linkGroupId # <<>>
  /\ \E k \in DOMAIN game.teams : Len(game.teams[k].players) = 4
  /\ GameShowsRoster
====
